---- MODULE Spec2Model ----
(***************************************************************************)
(* A model of raumfeld/__init__.py: the SSDP discovery function discover() *)
(* and the control surface of RaumfeldDevice.                              *)
(*                                                                         *)
(* Three specifications are given over one set of variables:               *)
(*   Spec           one discover() call, with the network as environment   *)
(*   SpecConcurrent two discover() calls interleaved in one process        *)
(*   SpecControl    one RaumfeldDevice handle and a remote device          *)
(***************************************************************************)
EXTENDS Integers, Sequences, FiniteSets, TLC

(***************************************************************************)
(* Bounds of the model.                                                    *)
(***************************************************************************)
MaxRetries == 2
MaxLines == 2
MaxName == 2
MaxMute == 2

(***************************************************************************)
(* Values.                                                                 *)
(***************************************************************************)
\* socket.getdefaulttimeout() of a fresh interpreter is None; None is
\* written 0 here. The timeouts a caller passes: the default of line 21 and
\* a longer one.
None == 0
Timeouts == {1, 5}

Calls == {1, 2}

\* The location URLs the devices of the network announce.
LocA == "http://10.0.0.1:47365/a.xml"
LocB == "http://10.0.0.2:47365/b.xml"
LocC == "http://10.0.0.3:47365/c.xml"
Locs == {LocA, LocB, LocC}
\* LocA followed by a tab: what a header line with trailing blanks carries.
LocAPadded == "http://10.0.0.1:47365/a.xml\t"

\* str.strip() on the tokens of the model.
strip(token) == IF token = LocAPadded THEN LocA ELSE token

\* A line of a response is written as the list line.split(' ') gives.
\* line.startswith('Location: ') holds exactly when the first piece is
\* 'Location:' and a second piece exists.
Lines ==
    {<<"HTTP/1.1", "200", "OK">>, <<"LOCATION:", LocA>>, <<"Location:", "", LocA>>}
    \cup {<<"Location:", l>> : l \in Locs \cup {LocAPadded}}

startswithLocation(line) == Len(line) >= 2 /\ line[1] = "Location:"

\* A response datagram: the list response.split('\r\n') gives.
Datagrams == UNION {[1..n -> Lines] : n \in 1..MaxLines}
\* The datagrams of the two-call specification: one announcing device.
DatagramsConcurrent == {<<<<"Location:", LocA>>>>}

\* The descriptor a location serves: friendly name and model description,
\* or Unavailable when the fetch or the parse of the document fails.
ZoneSentinel == "Virtual Media Player"
Models == {ZoneSentinel, "Raumfeld Speaker"}
Names == 1..MaxName
Unavailable == [ok |-> FALSE, friendly_name |-> 0, model_description |-> ""]
Descriptors ==
    {[ok |-> TRUE, friendly_name |-> n, model_description |-> m] :
        n \in Names, m \in Models}
FetchResults == Descriptors \cup {Unavailable}

Range(s) == {s[k] : k \in 1..Len(s)}

VARIABLES
    defaulttimeout, \* socket module default timeout (process wide)
    pc,             \* per call: position in discover()
    timeout,        \* per call: the timeout argument
    retries,        \* per call: the retries argument
    round,          \* per call: iterations of the for loop entered
    sock,           \* per call: the socket of the current round
    opened,         \* per call: sockets opened
    sent,           \* per call: M-SEARCH datagrams sent
    repeated,       \* per call: a Location header repeated a known location
    locations,      \* per call: the list locations
    constructed,    \* per call: RaumfeldDevice objects built, in order
    result,         \* per call: the list returned
    error,          \* per call: the call that raised, "" if none
    device,         \* the RaumfeldDevice handle under control
    remote,         \* the state the remote device holds
    written,        \* what the last setter that returned has set
    last            \* the last operation invoked on the handle

discoverVars == <<defaulttimeout, pc, timeout, retries, round, sock, opened,
                  sent, repeated, locations, constructed, result, error>>
controlVars == <<device, remote, written, last>>
vars == <<defaulttimeout, pc, timeout, retries, round, sock, opened, sent,
          repeated, locations, constructed, result, error, device,
          remote, written, last>>

(***************************************************************************)
(* discover(): pure parts.                                                 *)
(***************************************************************************)
\* appendLocation without the membership test of line 56.
appendLocationUnchecked(locs, line) ==
    IF startswithLocation(line) THEN Append(locs, strip(line[2])) ELSE locs

\* Lines 54-57 for one line of the response.
appendLocation(locs, line) ==
    IF startswithLocation(line)
    THEN LET location == strip(line[2])
         IN IF location \in Range(locs) THEN locs ELSE Append(locs, location)
    ELSE locs

\* Lines 53-57: the for loop over the lines of one response.
RECURSIVE parseResponse(_, _)
parseResponse(locs, response) ==
    IF response = <<>> THEN locs
    ELSE parseResponse(appendLocation(locs, Head(response)), Tail(response))

\* Line 56: the test "not location in locations" is false for some line of
\* the response, that is the response has more Location headers than it adds
\* locations.
repeats(locs, response) ==
    Cardinality({k \in 1..Len(response) : startswithLocation(response[k])})
        > Len(parseResponse(locs, response)) - Len(locs)

\* RaumfeldDevice(location) as discover() uses it: the fields read later.
Device(location, d) ==
    [location |-> location, friendly_name |-> d.friendly_name,
     model_description |-> d.model_description]

\* insert placing an element before the elements of equal key: a sort
\* that is not stable.
insertBefore(t, x) ==
    LET p == Cardinality({k \in 1..Len(t) : t[k].friendly_name < x.friendly_name})
    IN SubSeq(t, 1, p) \o <<x>> \o SubSeq(t, p + 1, Len(t))

\* sorted(..., key=friendly_name): Python's sort is stable, so an element
\* goes after every element already placed whose key is not greater.
insert(t, x) ==
    LET p == Cardinality({k \in 1..Len(t) : t[k].friendly_name <= x.friendly_name})
    IN SubSeq(t, 1, p) \o <<x>> \o SubSeq(t, p + 1, Len(t))

RECURSIVE sorted(_)
sorted(s) ==
    IF s = <<>> THEN <<>>
    ELSE insert(sorted(SubSeq(s, 1, Len(s) - 1)), s[Len(s)])

\* Line 61.
isZone(d) == d.model_description = ZoneSentinel
zones(devices) == SelectSeq(devices, isZone)

\* select without the zone priority of lines 62-64.
selectAll(devices) == devices

\* Lines 62-67.
select(devices) ==
    IF Len(zones(devices)) > 0 THEN zones(devices) ELSE devices

\* moreRounds with the loop bound off by one.
moreRoundsOneExtra(c) == round[c] <= retries[c]

\* Line 39: range(retries) still has an element to give.
moreRounds(c) == round[c] < retries[c]

(***************************************************************************)
(* discover(): steps.                                                      *)
(***************************************************************************)
NoSock == [open |-> FALSE, timeout |-> None]

InitDiscover ==
    /\ defaulttimeout = None
    /\ pc = [c \in Calls |-> "idle"]
    /\ timeout = [c \in Calls |-> None]
    /\ retries = [c \in Calls |-> 0]
    /\ round = [c \in Calls |-> 0]
    /\ sock = [c \in Calls |-> NoSock]
    /\ opened = [c \in Calls |-> 0]
    /\ sent = [c \in Calls |-> 0]
    /\ repeated = [c \in Calls |-> FALSE]
    /\ locations = [c \in Calls |-> <<>>]
    /\ constructed = [c \in Calls |-> <<>>]
    /\ result = [c \in Calls |-> <<>>]
    /\ error = [c \in Calls |-> ""]

\* Lines 21-36: the call binds its arguments and starts with no location.
Discover(c, t, r) ==
    /\ pc[c] = "idle"
    /\ timeout' = [timeout EXCEPT ![c] = t]
    /\ retries' = [retries EXCEPT ![c] = r]
    /\ locations' = [locations EXCEPT ![c] = <<>>]
    /\ pc' = [pc EXCEPT ![c] = "setdefaulttimeout"]
    /\ UNCHANGED <<defaulttimeout, round, sock, opened, sent, repeated,
                   constructed, result, error>>
    /\ UNCHANGED controlVars

\* Line 38: socket.setdefaulttimeout(timeout).
SetDefaultTimeout(c) ==
    /\ pc[c] = "setdefaulttimeout"
    /\ defaulttimeout' = timeout[c]
    /\ pc' = [pc EXCEPT ![c] = "for"]
    /\ UNCHANGED <<timeout, retries, round, sock, opened, sent, repeated,
                   locations, constructed, result, error>>
    /\ UNCHANGED controlVars

\* Lines 39-45: a round opens a socket, which takes the default timeout
\* in effect at that moment.
OpenSocket(c) ==
    /\ pc[c] = "for"
    /\ moreRounds(c)
    /\ round' = [round EXCEPT ![c] = @ + 1]
    /\ sock' = [sock EXCEPT ![c] = [open |-> TRUE, timeout |-> defaulttimeout]]
    /\ opened' = [opened EXCEPT ![c] = @ + 1]
    /\ pc' = [pc EXCEPT ![c] = "sendto"]
    /\ UNCHANGED <<defaulttimeout, timeout, retries, sent, repeated,
                   locations, constructed, result, error>>
    /\ UNCHANGED controlVars

\* Line 48: the datagram is sent.
SendTo(c) ==
    /\ pc[c] = "sendto"
    /\ sent' = [sent EXCEPT ![c] = @ + 1]
    /\ pc' = [pc EXCEPT ![c] = "recv"]
    /\ UNCHANGED <<defaulttimeout, timeout, retries, round, sock, opened,
                   repeated, locations, constructed, result, error>>
    /\ UNCHANGED controlVars

\* Line 48: sendto raises (no route, interface down); nothing catches it.
SendToFails(c) ==
    /\ pc[c] = "sendto"
    /\ error' = [error EXCEPT ![c] = "sendto"]
    /\ pc' = [pc EXCEPT ![c] = "raised"]
    /\ UNCHANGED <<defaulttimeout, timeout, retries, round, sock, opened, sent,
                   repeated, locations, constructed, result>>
    /\ UNCHANGED controlVars

\* Lines 52-57: a response arrives within the socket's timeout.
Recv(c, response) ==
    /\ pc[c] = "recv"
    /\ repeated' = [repeated EXCEPT ![c] = @ \/ repeats(locations[c], response)]
    /\ locations' = [locations EXCEPT ![c] = parseResponse(@, response)]
    /\ UNCHANGED <<defaulttimeout, pc, timeout, retries, round, sock, opened,
                   sent, constructed, result, error>>
    /\ UNCHANGED controlVars

\* Lines 58-59: socket.timeout ends the round.
RecvTimeout(c) ==
    /\ pc[c] = "recv"
    /\ pc' = [pc EXCEPT ![c] = "for"]
    /\ UNCHANGED <<defaulttimeout, timeout, retries, round, sock, opened, sent,
                   repeated, locations, constructed, result, error>>
    /\ UNCHANGED controlVars

\* Line 52: recv raises an error that is not socket.timeout; the except
\* clause of line 58 does not match it.
RecvFails(c) ==
    /\ pc[c] = "recv"
    /\ error' = [error EXCEPT ![c] = "recv"]
    /\ pc' = [pc EXCEPT ![c] = "raised"]
    /\ UNCHANGED <<defaulttimeout, timeout, retries, round, sock, opened, sent,
                   repeated, locations, constructed, result>>
    /\ UNCHANGED controlVars

\* The descriptors the locations of a call can serve: the empty location
\* cannot be fetched.
Fetches(c) ==
    LET asked == Range(locations[c])
    IN {[l \in asked |-> IF l \in Locs THEN f[l] ELSE Unavailable] :
            f \in [asked \cap Locs -> FetchResults]}

\* Lines 60-67 when every RaumfeldDevice(location) succeeds.
Construct(c, fetched) ==
    /\ pc[c] = "for"
    /\ ~moreRounds(c)
    /\ \A l \in Range(locations[c]) : fetched[l].ok
    /\ LET built == [k \in 1..Len(locations[c]) |->
                        Device(locations[c][k], fetched[locations[c][k]])]
       IN /\ constructed' = [constructed EXCEPT ![c] = built]
          /\ result' = [result EXCEPT ![c] = select(sorted(built))]
    /\ pc' = [pc EXCEPT ![c] = "done"]
    /\ UNCHANGED <<defaulttimeout, timeout, retries, round, sock, opened, sent,
                   repeated, locations, error>>
    /\ UNCHANGED controlVars

\* Line 60 when RaumfeldDevice(location) raises for some location: the
\* list comprehension stops at the first such location and the exception
\* leaves discover().
ConstructFails(c, fetched) ==
    /\ pc[c] = "for"
    /\ ~moreRounds(c)
    /\ \E l \in Range(locations[c]) : ~fetched[l].ok
    /\ LET first == CHOOSE k \in 1..Len(locations[c]) :
                        /\ ~fetched[locations[c][k]].ok
                        /\ \A j \in 1..(k - 1) : fetched[locations[c][j]].ok
       IN constructed' = [constructed EXCEPT ![c] =
              [k \in 1..(first - 1) |->
                  Device(locations[c][k], fetched[locations[c][k]])]]
    /\ error' = [error EXCEPT ![c] = "RaumfeldDevice"]
    /\ pc' = [pc EXCEPT ![c] = "raised"]
    /\ UNCHANGED <<defaulttimeout, timeout, retries, round, sock, opened, sent,
                   repeated, locations, result>>
    /\ UNCHANGED controlVars

\* No handle is under control while discover() is studied.
NoValue == ""
NoInvocation ==
    [op |-> "none", arg |-> NoValue, rpcs |-> <<>>, failed |-> FALSE,
     raised |-> FALSE, value |-> NoValue]
NothingWritten ==
    [volumeSet |-> FALSE, volume |-> 0, muteSet |-> FALSE, mute |-> FALSE]

InitControlIdle ==
    /\ device = [location |-> "", address |-> "", rendering_control |-> "",
                 av_transport |-> ""]
    /\ remote = [volume |-> 0, mute |-> 0, uri |-> "", meta |-> <<>>]
    /\ written = NothingWritten
    /\ last = NoInvocation

Init == InitDiscover /\ InitControlIdle

Next ==
    \/ \E t \in Timeouts, r \in 0..MaxRetries : Discover(1, t, r)
    \/ SetDefaultTimeout(1)
    \/ OpenSocket(1)
    \/ SendTo(1)
    \/ SendToFails(1)
    \/ \E response \in Datagrams : Recv(1, response)
    \/ RecvTimeout(1)
    \/ RecvFails(1)
    \/ \E fetched \in Fetches(1) : Construct(1, fetched)
    \/ \E fetched \in Fetches(1) : ConstructFails(1, fetched)

Spec == Init /\ [][Next]_vars

(***************************************************************************)
(* Two discover() calls interleaved in one process (two threads).          *)
(***************************************************************************)
NextConcurrent ==
    \/ \E c \in Calls, t \in Timeouts, r \in 0..MaxRetries : Discover(c, t, r)
    \/ \E c \in Calls : SetDefaultTimeout(c)
    \/ \E c \in Calls : OpenSocket(c)
    \/ \E c \in Calls : SendTo(c)
    \/ \E c \in Calls : SendToFails(c)
    \/ \E c \in Calls, response \in DatagramsConcurrent : Recv(c, response)
    \/ \E c \in Calls : RecvTimeout(c)
    \/ \E c \in Calls : RecvFails(c)
    \/ \E c \in Calls : \E fetched \in Fetches(c) : Construct(c, fetched)
    \/ \E c \in Calls : \E fetched \in Fetches(c) : ConstructFails(c, fetched)

SpecConcurrent == Init /\ [][NextConcurrent]_vars

(***************************************************************************)
(* Properties of discover().                                               *)
(***************************************************************************)
NoRepeat(s) == \A i, j \in 1..Len(s) : i # j => s[i] # s[j]
LocationsOf(devs) == [k \in 1..Len(devs) |-> devs[k].location]
\* The position at which a location was first seen.
FirstSeen(c, l) == CHOOSE k \in 1..Len(locations[c]) : locations[c][k] = l

\* C1: whatever datagrams arrive, in whatever round, the list locations
\* never holds a location twice, and no two devices of the returned list
\* have the same location.
C1_UniqueLocations ==
    \A c \in Calls :
        /\ NoRepeat(locations[c])
        /\ pc[c] = "done" => NoRepeat(LocationsOf(result[c]))

\* C1 witness: a call returned two devices or more after a Location header
\* repeated a location already collected, over two rounds.
C1_Witness ==
    /\ pc[1] = "done"
    /\ repeated[1]
    /\ round[1] >= 2
    /\ Len(result[1]) >= 2

\* C2: the returned list holds exactly the constructed devices whose model
\* description is the zone sentinel when there is one, and otherwise every
\* constructed device, one per location collected.
C2_ZoneSelection ==
    \A c \in Calls :
        pc[c] = "done" =>
            LET all == Range(constructed[c])
                zs == {d \in all : d.model_description = "Virtual Media Player"}
                kept == IF zs # {} THEN zs ELSE all
            IN /\ LocationsOf(constructed[c]) = locations[c]
               /\ Range(result[c]) = kept
               /\ Len(result[c]) = Cardinality(kept)

\* C2 witness: a call returned when zones and other devices were both
\* constructed.
C2_Witness ==
    /\ pc[1] = "done"
    /\ \E d, e \in Range(constructed[1]) :
           /\ d.model_description = "Virtual Media Player"
           /\ e.model_description # "Virtual Media Player"

\* C3: the returned list ascends by friendly name, and devices of equal
\* friendly name stand in the order their locations were first seen.
C3_SortedStable ==
    \A c \in Calls :
        pc[c] = "done" =>
            \A i, j \in 1..Len(result[c]) :
                i < j =>
                    /\ result[c][i].friendly_name <= result[c][j].friendly_name
                    /\ result[c][i].friendly_name = result[c][j].friendly_name
                          => FirstSeen(c, result[c][i].location)
                               < FirstSeen(c, result[c][j].location)

\* C3 witness: a returned list of three devices, two of them of equal
\* friendly name and one of a smaller name seen last.
C3_Witness ==
    /\ pc[1] = "done"
    /\ Len(result[1]) = 3
    /\ result[1][2].friendly_name = result[1][3].friendly_name
    /\ result[1][1].friendly_name < result[1][2].friendly_name
    /\ result[1][1].location = locations[1][3]

\* C4: with retries = 0 no socket is opened, no datagram sent, no device
\* constructed and the empty list returned; a call that returns has sent
\* exactly retries datagrams.
C4_RetriesCountSends ==
    \A c \in Calls :
        /\ retries[c] = 0 =>
              /\ opened[c] = 0
              /\ sent[c] = 0
              /\ constructed[c] = <<>>
              /\ result[c] = <<>>
        /\ pc[c] = "done" => sent[c] = retries[c]

\* C4 witness: a call with retries = 0 returned.
C4_Witness == pc[1] = "done" /\ retries[1] = 0

\* C5: a location whose device cannot be constructed never makes
\* discover() raise.
C5_FailureIsolated ==
    \A c \in Calls : pc[c] = "raised" => error[c] # "RaumfeldDevice"

\* C9: a failing send or receive never makes discover() raise.
C9_NetworkErrorsNonFatal ==
    \A c \in Calls : pc[c] = "raised" => error[c] \notin {"sendto", "recv"}

\* C10: the socket a call waits on carries the timeout that call was given.
C10_OwnTimeout ==
    \A c \in Calls : sock[c].open => sock[c].timeout = timeout[c]

(***************************************************************************)
(* RaumfeldDevice: the handle and its control surface.                     *)
(***************************************************************************)
\* Lines 76-77: '%s://%s' % (scheme, netloc) of urlparse(location).
address(location) ==
    CASE location = LocA -> "http://10.0.0.1:47365"
      [] location = LocB -> "http://10.0.0.2:47365"
      [] location = LocC -> "http://10.0.0.3:47365"
      [] OTHER -> "://"

\* Lines 72-98: the fields of a handle that the control surface uses.
RaumfeldDevice(location) ==
    [location |-> location,
     address |-> address(location),
     rendering_control |->
        [location |-> <<address(location), "/RenderingService/Control">>,
         action |-> "urn:upnp-org:serviceId:RenderingControl#"],
     av_transport |->
        [location |-> <<address(location), "/TransportService/Control">>,
         action |-> "urn:schemas-upnp-org:service:AVTransport:1#"]]

\* The values a caller passes and a device holds.
Volumes == {0, 1, 50, 99, 100}
MuteWire == 0..MaxMute
URIs == {"", "http://radio.example/stream.mp3"}
TransportStates == {"PLAYING", "PAUSED_PLAYBACK", "STOPPED"}
Targets == {"00:01:00"}
Units == {"ABS_TIME", "REL_TIME", "TRACK_NR"}

\* A metadata document as ElementTree sees it: the children of the root,
\* the children of each of them, and the text of the grandchildren's
\* children. '' has no child at all.
MetaNone == <<>>
MetaThree == << << <<"title", "class", "section">> >> >>
MetaFour == << << <<"title", "class", "section", "name">> >> >>
MetaDocs == {MetaNone, MetaThree, MetaFour}

\* tree[0][0][k].text, with k counted from 0 as in lines 157 and 193;
\* an IndexError when a level has too few children.
text(tree, k) ==
    IF Len(tree) >= 1 /\ Len(tree[1]) >= 1 /\ Len(tree[1][1]) >= k + 1
    THEN [ok |-> TRUE, text |-> tree[1][1][k + 1]]
    ELSE [ok |-> FALSE, text |-> NoValue]

\* call repeating a request that failed.
callRetrying(endpoint, action, ok) ==
    IF ok THEN <<[endpoint |-> endpoint, action |-> action]>>
    ELSE <<[endpoint |-> endpoint, action |-> action],
           [endpoint |-> endpoint, action |-> action]>>

\* The requests one SoapClient method call puts on the wire: one, whether
\* it succeeds or not.
call(endpoint, action, ok) == <<[endpoint |-> endpoint, action |-> action]>>

\* One invocation of an operation: the single SoapClient call it makes,
\* whether that call failed, whether an exception left the operation, and
\* the value returned.
invoke(op, arg, endpoint, action, ok, parsed, value) ==
    [op |-> op, arg |-> arg, rpcs |-> call(endpoint, action, ok),
     failed |-> ~ok, raised |-> ~ok \/ ~parsed,
     value |-> IF ok /\ parsed THEN value ELSE NoValue]

\* DesiredMute with the two branches swapped.
DesiredMuteSwapped(value) == IF value THEN 0 ELSE 1

\* Line 141: DesiredMute=1 if value else 0.
DesiredMute(value) == IF value THEN 1 ELSE 0

\* Line 136: response.CurrentMute == 1.
muted(CurrentMute) == CurrentMute = 1

\* In the setters below a request that returns has been acted on by the
\* device (ok => acted); one that fails may or may not have reached it.

InitControl ==
    /\ InitDiscover
    /\ device = RaumfeldDevice(LocA)
    /\ remote \in [volume : Volumes, mute : MuteWire, uri : URIs, meta : MetaDocs]
    /\ written = NothingWritten
    /\ last = NoInvocation

\* Lines 100-102.
play(ok) ==
    /\ last' = invoke("play", NoValue, device.av_transport, "Play", ok,
                      TRUE, NoValue)
    /\ UNCHANGED <<device, remote, written>>
    /\ UNCHANGED discoverVars

\* Lines 104-105.
playURI(value, meta, ok, acted) ==
    /\ ok => acted
    /\ last' = invoke("playURI", value, device.av_transport, "SetAVTransportURI",
                      ok, TRUE, NoValue)
    /\ remote' = IF acted THEN [remote EXCEPT !.uri = value, !.meta = meta]
                 ELSE remote
    /\ UNCHANGED <<device, written>>
    /\ UNCHANGED discoverVars

\* Lines 107-109.
next(ok) ==
    /\ last' = invoke("next", NoValue, device.av_transport, "Next", ok,
                      TRUE, NoValue)
    /\ UNCHANGED <<device, remote, written>>
    /\ UNCHANGED discoverVars

\* Lines 111-113.
previous(ok) ==
    /\ last' = invoke("previous", NoValue, device.av_transport, "Previous", ok,
                      TRUE, NoValue)
    /\ UNCHANGED <<device, remote, written>>
    /\ UNCHANGED discoverVars

\* Lines 115-117.
pause(ok) ==
    /\ last' = invoke("pause", NoValue, device.av_transport, "Pause", ok,
                      TRUE, NoValue)
    /\ UNCHANGED <<device, remote, written>>
    /\ UNCHANGED discoverVars

\* Lines 119-121: the response of Seek is returned as it is.
seek(target, unit, ok) ==
    /\ last' = invoke("seek", <<target, unit>>, device.av_transport, "Seek", ok,
                      TRUE, "SeekResponse")
    /\ UNCHANGED <<device, remote, written>>
    /\ UNCHANGED discoverVars

\* Lines 123-126.
volume(ok) ==
    /\ last' = invoke("volume", NoValue, device.rendering_control, "GetVolume",
                      ok, TRUE, remote.volume)
    /\ UNCHANGED <<device, remote, written>>
    /\ UNCHANGED discoverVars

\* Lines 128-130. A setter that returns has written its value; one that
\* raises after the device acted leaves an unknown writer behind.
volume_setter(value, ok, acted) ==
    /\ ok => acted
    /\ last' = invoke("volume_setter", value, device.rendering_control,
                      "SetVolume", ok, TRUE, NoValue)
    /\ remote' = IF acted THEN [remote EXCEPT !.volume = value] ELSE remote
    /\ written' = IF ok THEN [written EXCEPT !.volumeSet = TRUE, !.volume = value]
                  ELSE IF acted THEN [written EXCEPT !.volumeSet = FALSE, !.volume = 0]
                  ELSE written
    /\ UNCHANGED device
    /\ UNCHANGED discoverVars

\* Lines 132-136.
mute(ok) ==
    /\ last' = invoke("mute", NoValue, device.rendering_control, "GetMute", ok,
                      TRUE, muted(remote.mute))
    /\ UNCHANGED <<device, remote, written>>
    /\ UNCHANGED discoverVars

\* Lines 138-141.
mute_setter(value, ok, acted) ==
    /\ ok => acted
    /\ last' = invoke("mute_setter", value, device.rendering_control, "SetMute",
                      ok, TRUE, NoValue)
    /\ remote' = IF acted THEN [remote EXCEPT !.mute = DesiredMute(value)]
                 ELSE remote
    /\ written' = IF ok THEN [written EXCEPT !.muteSet = TRUE, !.mute = value]
                  ELSE IF acted THEN [written EXCEPT !.muteSet = FALSE, !.mute = FALSE]
                  ELSE written
    /\ UNCHANGED device
    /\ UNCHANGED discoverVars

\* Lines 143-146: the device answers with the state it is in.
curTransState(state, ok) ==
    /\ last' = invoke("curTransState", NoValue, device.av_transport, "GetTransportInfo", ok,
                      TRUE, state)
    /\ UNCHANGED <<device, remote, written>>
    /\ UNCHANGED discoverVars

\* Lines 148-151.
currentURI(ok) ==
    /\ last' = invoke("currentURI", NoValue, device.av_transport, "GetMediaInfo", ok,
                      TRUE, remote.uri)
    /\ UNCHANGED <<device, remote, written>>
    /\ UNCHANGED discoverVars

\* Lines 153-158.
currentURIMetaData(ok) ==
    /\ last' = invoke("currentURIMetaData", NoValue, device.av_transport, "GetMediaInfo", ok,
                      text(remote.meta, 3).ok, text(remote.meta, 3).text)
    /\ UNCHANGED <<device, remote, written>>
    /\ UNCHANGED discoverVars

\* Lines 160-163.
trackURI(ok) ==
    /\ last' = invoke("trackURI", NoValue, device.av_transport, "GetPositionInfo", ok,
                      TRUE, remote.uri)
    /\ UNCHANGED <<device, remote, written>>
    /\ UNCHANGED discoverVars

\* Lines 165-168.
trackMetaData(ok) ==
    /\ last' = invoke("trackMetaData", NoValue, device.av_transport, "GetPositionInfo", ok,
                      TRUE, remote.meta)
    /\ UNCHANGED <<device, remote, written>>
    /\ UNCHANGED discoverVars

\* Lines 170-173.
trackDuration(ok) ==
    /\ last' = invoke("trackDuration", NoValue, device.av_transport, "GetPositionInfo", ok,
                      TRUE, "TrackDuration")
    /\ UNCHANGED <<device, remote, written>>
    /\ UNCHANGED discoverVars

\* Lines 175-178.
trackRelTime(ok) ==
    /\ last' = invoke("trackRelTime", NoValue, device.av_transport, "GetPositionInfo", ok,
                      TRUE, "RelTime")
    /\ UNCHANGED <<device, remote, written>>
    /\ UNCHANGED discoverVars

\* Lines 180-183.
trackAbsTime(ok) ==
    /\ last' = invoke("trackAbsTime", NoValue, device.av_transport, "GetPositionInfo", ok,
                      TRUE, "AbsTime")
    /\ UNCHANGED <<device, remote, written>>
    /\ UNCHANGED discoverVars

\* Lines 185-197.
track_pos_info(ok) ==
    /\ last' = invoke("track_pos_info", NoValue, device.av_transport,
                      "GetPositionInfo", ok, text(remote.meta, 2).ok,
                      <<"Track", "TrackDuration", text(remote.meta, 2).text,
                        remote.uri, "RelTime", "AbsTime">>)
    /\ UNCHANGED <<device, remote, written>>
    /\ UNCHANGED discoverVars

NextControl ==
    \/ \E ok \in BOOLEAN : play(ok)
    \/ \E value \in URIs, meta \in MetaDocs, ok, acted \in BOOLEAN :
          playURI(value, meta, ok, acted)
    \/ \E ok \in BOOLEAN : next(ok)
    \/ \E ok \in BOOLEAN : previous(ok)
    \/ \E ok \in BOOLEAN : pause(ok)
    \/ \E target \in Targets, unit \in Units, ok \in BOOLEAN : seek(target, unit, ok)
    \/ \E ok \in BOOLEAN : volume(ok)
    \/ \E value \in Volumes, ok, acted \in BOOLEAN : volume_setter(value, ok, acted)
    \/ \E ok \in BOOLEAN : mute(ok)
    \/ \E value, ok, acted \in BOOLEAN : mute_setter(value, ok, acted)
    \/ \E state \in TransportStates, ok \in BOOLEAN : curTransState(state, ok)
    \/ \E ok \in BOOLEAN : currentURI(ok)
    \/ \E ok \in BOOLEAN : currentURIMetaData(ok)
    \/ \E ok \in BOOLEAN : trackURI(ok)
    \/ \E ok \in BOOLEAN : trackMetaData(ok)
    \/ \E ok \in BOOLEAN : trackDuration(ok)
    \/ \E ok \in BOOLEAN : trackRelTime(ok)
    \/ \E ok \in BOOLEAN : trackAbsTime(ok)
    \/ \E ok \in BOOLEAN : track_pos_info(ok)

SpecControl == InitControl /\ [][NextControl]_vars

(***************************************************************************)
(* Properties of the control surface.                                      *)
(***************************************************************************)
RenderingOperations == {"volume", "volume_setter", "mute", "mute_setter"}

\* C6: a mute read that returns gives TRUE exactly when the CurrentMute
\* value of the response is not 0.
C6_NonzeroReadsMuted ==
    (last.op = "mute" /\ ~last.raised) => (last.value = (remote.mute # 0))

C8_OneCallNoRetry ==
    /\ device = RaumfeldDevice(device.location)
    /\ last.op # "none" =>
          /\ Len(last.rpcs) = 1
          /\ last.rpcs[1].endpoint =
                IF last.op \in RenderingOperations
                THEN device.rendering_control ELSE device.av_transport
          /\ last.failed => last.raised

\* C8 witness: the request of the combined position query failed.
C8_Witness == last.op = "track_pos_info" /\ last.failed /\ last.raised

====
